---- MODULE Spec2Model ----
(***************************************************************************)
(* Model of the statistics job of github-me (job/src/main.rs) and of the   *)
(* storage helper it publishes through (common/src/lib.rs).                *)
(*                                                                         *)
(* One run of `run()`: the repository lister pages through the listing,    *)
(* the rayon fan-out clones and analyses every kept repository in          *)
(* parallel and merges its language statistics into the two shared         *)
(* accumulators behind their mutexes, and the single-threaded              *)
(* post-processing normalises, adjusts, sorts and saves the two documents. *)
(***************************************************************************)
EXTENDS Integers, Sequences, FiniteSets, TLC

(***************************************************************************)
(* Bounds of the model.                                                    *)
(***************************************************************************)
\* number of repositories the listing returns, at most
MaxRepos == 2
\* number of rayon worker threads
PoolSize == 2
\* number of repository descriptors on one page of the listing
PageSize == 1
\* number of requests the read-side service receives
MaxRequests == 3

(***************************************************************************)
(* Program constants.                                                      *)
(***************************************************************************)
\* main.rs:263  manual adjustment of the Rust code count
RustAdjustment == 15673
\* main.rs:269  manual adjustment of the TypeScript code count
TypeScriptAdjustment == 4333

(***************************************************************************)
(* Languages.  tokei::Languages is a BTreeMap keyed by LanguageType, so a  *)
(* repository's statistics are iterated in key order; LangOrder is that    *)
(* order for the language types the model uses.                            *)
(***************************************************************************)
LangOrder == <<"Python", "Rust", "Tsx", "TypeScript">>

LanguageType == {LangOrder[i] : i \in DOMAIN LangOrder}

\* struct SimpleLanguage
SimpleLanguage(name, code, blanks, comments) ==
    [name |-> name, code |-> code, blanks |-> blanks, comments |-> comments]

\* SimpleLanguage::from_lang: copies the three counters of a tokei Language
from_lang(ty, lang) ==
    SimpleLanguage(ty, lang.code, lang.blanks, lang.comments)

(***************************************************************************)
(* Sequence helpers.                                                       *)
(***************************************************************************)
Range(s) == {s[i] : i \in DOMAIN s}

\* swap_remove as Vec::pop: the last element is dropped, whatever idx is
swap_remove_DropsLast(s, idx) == SubSeq(s, 1, Len(s) - 1)

\* Vec::swap_remove: the last element takes the place of the removed one
swap_remove(s, idx) ==
    LET last == Len(s) IN
    IF idx = last THEN SubSeq(s, 1, last - 1)
    ELSE [i \in 1..(last - 1) |-> IF i = idx THEN s[last] ELSE s[i]]

(***************************************************************************)
(* slice::sort_unstable_by with a descending comparator on a key           *)
(* (b.key.cmp(&a.key)), the only way the program sorts.  For the slice     *)
(* lengths of this program (at most 20 elements) the standard library      *)
(* sorts by insertion: an element moves left past the elements whose key   *)
(* is strictly smaller, so equal keys keep the order of the input.         *)
(***************************************************************************)
RECURSIVE InsertTail(_, _)
InsertTail(sorted, x) ==
    IF sorted = <<>> THEN <<x>>
    ELSE LET n == Len(sorted) IN
         IF sorted[n][1] < x[1]
         THEN Append(InsertTail(SubSeq(sorted, 1, n - 1), x), sorted[n])
         ELSE Append(sorted, x)

RECURSIVE InsertionSort(_)
InsertionSort(pairs) ==
    IF pairs = <<>> THEN <<>>
    ELSE LET n == Len(pairs) IN
         InsertTail(InsertionSort(SubSeq(pairs, 1, n - 1)), pairs[n])

\* the slice s sorted by the keys the comparator reads, keys[i] being that of s[i]
sort_unstable_by(s, keys) ==
    LET sorted == InsertionSort([i \in DOMAIN s |-> <<keys[i], s[i]>>])
    IN  [i \in DOMAIN s |-> sorted[i][2]]

(***************************************************************************)
(* The statistics code of main.rs.                                         *)
(***************************************************************************)
\* add_assign with the blanks line adding the comments of rhs
add_assign_WrongField(self, rhs) ==
    [self EXCEPT !.code = self.code + rhs.code,
                 !.comments = self.comments + rhs.comments,
                 !.blanks = self.blanks + rhs.comments]

\* impl AddAssign<&SimpleLanguage> for SimpleLanguage
add_assign(self, rhs) ==
    [self EXCEPT !.code = self.code + rhs.code,
                 !.comments = self.comments + rhs.comments,
                 !.blanks = self.blanks + rhs.blanks]

\* total_lock.iter_mut().find(|lang| &lang.name == ty): position of the entry
\* of the language, 0 for None
FindLang(total_lock, ty) ==
    IF \E i \in DOMAIN total_lock : total_lock[i].name = ty
    THEN CHOOSE i \in DOMAIN total_lock :
            /\ total_lock[i].name = ty
            /\ \A j \in 1..(i - 1) : total_lock[j].name # ty
    ELSE 0

\* AddOrPush with the entry found assigned instead of added into
AddOrPush_Overwrite(total_lock, slot, entry) ==
    IF slot # 0
    THEN [total_lock EXCEPT ![slot] = entry]
    ELSE Append(total_lock, entry)

\* the two branches of the `if let`: add into the entry found, or push
AddOrPush(total_lock, slot, entry) ==
    IF slot # 0
    THEN [total_lock EXCEPT ![slot] = add_assign(total_lock[slot], entry)]
    ELSE Append(total_lock, entry)

\* one iteration of the accumulator loop, with the lock held throughout
MergeEntry(total_lock, entry) ==
    AddOrPush(total_lock, FindLang(total_lock, entry.name), entry)

\* the whole accumulator loop of one repository, run without interruption
RECURSIVE MergeAll(_, _)
MergeAll(acc, languages) ==
    IF languages = <<>> THEN acc
    ELSE MergeAll(MergeEntry(acc, Head(languages)), Tail(languages))

\* fn total_code
RECURSIVE total_code(_)
total_code(languages) ==
    IF languages = <<>> THEN 0
    ELSE Head(languages).code + total_code(Tail(languages))

\* combine_ts_tsx that turns a Tsx entry into the TypeScript entry when there
\* is no TypeScript entry to add it to
combine_ts_tsx_RenamesTsx(langs) ==
    LET tsx_idx == FindLang(langs, "Tsx")
        ts_idx == FindLang(langs, "TypeScript")
    IN  IF tsx_idx = 0 THEN langs
        ELSE IF ts_idx = 0 THEN [langs EXCEPT ![tsx_idx].name = "TypeScript"]
        ELSE swap_remove([langs EXCEPT ![ts_idx] = add_assign(langs[ts_idx], langs[tsx_idx])],
                         tsx_idx)

\* fn combine_ts_tsx
combine_ts_tsx(langs) ==
    LET tsx_idx == FindLang(langs, "Tsx")
        ts_idx == FindLang(langs, "TypeScript")
    IN  IF tsx_idx = 0 THEN langs
        ELSE IF ts_idx = 0 THEN langs
        ELSE swap_remove([langs EXCEPT ![ts_idx] = add_assign(langs[ts_idx], langs[tsx_idx])],
                         tsx_idx)

\* CodeOf with a comparator that reads the comment lines
CodeOf_Comments(langs) == [i \in DOMAIN langs |-> langs[i].comments]

\* keys of the language sorts: b.code.cmp(&a.code)
CodeOf(langs) == [i \in DOMAIN langs |-> langs[i].code]

\* keys of the repository sort: total_code(&b.languages).cmp(&total_code(&a.languages))
TotalCodeOf(rs) == [i \in DOMAIN rs |-> total_code(rs[i].languages)]

\* keys of the dispatch sort: b.size.cmp(&a.size)
SizeOf(rs) == [i \in DOMAIN rs |-> rs[i].size]

(***************************************************************************)
(* Inputs of one run: what the hosting API lists, what the line counter    *)
(* reports for each repository's tree, and the EXCLUDE_REPOS setting.      *)
(***************************************************************************)
\* models::Repository, the fields the job reads
Repository(name, fork, private, size) ==
    [name |-> name, fork |-> fork, private |-> private, size |-> size]

\* the repositories a listing is drawn from; names are unique per owner
Catalog ==
    { Repository("app",     FALSE, FALSE, 20),
      Repository("site",    FALSE, FALSE, 10),
      Repository("tool",    FALSE, FALSE, 20),
      Repository("notes",   FALSE, FALSE, 10),
      Repository("vault",   FALSE, TRUE,  10),
      Repository("scratch", FALSE, FALSE, 10),
      Repository("mirror",  TRUE,  FALSE, 20) }

\* tokei::Languages of each repository's tree, in key order
Tree(name) ==
    CASE name = "app"     -> << SimpleLanguage("Rust", 3, 1, 1),
                                SimpleLanguage("TypeScript", 2, 0, 1) >>
      [] name = "site"    -> << SimpleLanguage("Tsx", 1, 1, 1),
                                SimpleLanguage("TypeScript", 2, 1, 0) >>
      [] name = "tool"    -> << SimpleLanguage("Rust", 4, 0, 2),
                                SimpleLanguage("Tsx", 1, 1, 0) >>
      [] name = "notes"   -> << SimpleLanguage("Python", 1, 2, 0),
                                SimpleLanguage("Rust", 1, 0, 1),
                                SimpleLanguage("TypeScript", 1, 1, 1) >>
      [] name = "vault"   -> << SimpleLanguage("Tsx", 2, 0, 1) >>
      [] name = "scratch" -> << SimpleLanguage("Rust", 1, 1, 0),
                                SimpleLanguage("Tsx", 2, 0, 0),
                                SimpleLanguage("TypeScript", 2, 1, 1) >>
      [] name = "mirror"  -> << SimpleLanguage("Python", 5, 1, 1),
                                SimpleLanguage("Rust", 2, 2, 2) >>

\* EXCLUDE_REPOS of the run, split on ","
ExcludeRepos == {"scratch"}

\* the listings of at most n repositories
RECURSIVE Listings(_)
Listings(n) ==
    IF n = 0 THEN { <<>> }
    ELSE LET shorter == Listings(n - 1) IN
         shorter \cup UNION { { Append(q, x) : x \in Catalog \ Range(q) } :
                              q \in { r \in shorter : Len(r) = n - 1 } }

\* the listing as the API serves it, PageSize descriptors to a page; the first
\* request always answers with a page, an empty one when there is nothing
Paginate(listing) ==
    LET n == (Len(listing) + PageSize - 1) \div PageSize IN
    IF n = 0 THEN << <<>> >>
    ELSE [k \in 1..n |->
            SubSeq(listing, (k - 1) * PageSize + 1,
                   IF k * PageSize < Len(listing) THEN k * PageSize ELSE Len(listing))]

(***************************************************************************)
(* State.                                                                  *)
(***************************************************************************)
VARIABLES
    pc,              \* where run() is
    pages,           \* the listing of the hosting API, page by page
    exclude_repos,   \* EXCLUDE_REPOS, split on ","
    page,            \* number of the page `page` holds
    repos,           \* Vec of the repositories kept by the lister
    total,           \* Mutex<Vec<SimpleLanguage>>: the global total
    total_owner,     \* task holding the mutex of total, 0 when it is free
    per_repo_stats,  \* Mutex<Vec<PerRepo>>: the per-repo list
    task,            \* the closure run for each element of repos
    per_repo_owner,  \* task holding the mutex of per_repo_stats, 0 when free
    scratch,         \* names of the directories under /tmp/repo
    bucket,          \* the two stored objects
    cell,            \* the OnceCells TOTAL and PER_REPO of the read-side service
    request          \* the requests the read-side service is handling

\* the state of the read-side service (api/src/main.rs)
apiVars == << cell, request >>

vars == << pc, pages, exclude_repos, page, repos, total, total_owner,
           per_repo_stats, per_repo_owner, task, scratch, bucket, cell, request >>

\* an object of the store: the body written, and the run that wrote it
Object(run, body) == [run |-> run, body |-> body]

\* what the store holds before the run: the documents of the previous run
Previous == Object("previous", <<>>)

\* what an aborted earlier run left under /tmp/repo
StaleScratch == {"stale"}

\* OnceCell::new() for TOTAL and PER_REPO: nothing stored
EmptyCell == <<>>

\* the service before any request has arrived
ApiIdle ==
    /\ cell = [total |-> EmptyCell, per_repo |-> EmptyCell]
    /\ request = <<>>

Init ==
    /\ pc = "send"
    /\ pages \in { Paginate(l) : l \in Listings(MaxRepos) }
    /\ exclude_repos = ExcludeRepos
    /\ page = 0
    /\ repos = <<>>
    /\ total = <<>>
    /\ total_owner = 0
    /\ per_repo_stats = <<>>
    /\ per_repo_owner = 0
    /\ task = <<>>
    /\ scratch = StaleScratch
    /\ bucket = [total |-> Previous, per_repo |-> Previous]
    /\ ApiIdle

(***************************************************************************)
(* Repository lister (main.rs 86-109).                                     *)
(***************************************************************************)
\* KeepRepo with the visibility test of the collector moved into the lister
KeepRepo_DropsPrivate(repo) == ~repo.fork /\ ~repo.private

\* the filter of the lister: !repo.fork.is_some_and(|f| f)
KeepRepo(repo) == ~repo.fork

RECURSIVE KeptOf(_)
KeptOf(items) ==
    IF items = <<>> THEN <<>>
    ELSE IF KeepRepo(Head(items)) THEN <<Head(items)>> \o KeptOf(Tail(items))
    ELSE KeptOf(Tail(items))

\* the first request of the listing answers
SendFirst ==
    /\ pc = "send"
    /\ pc' = "list"
    /\ page' = 1
    /\ UNCHANGED << apiVars, per_repo_owner, pages, exclude_repos, repos, total, total_owner,
                    per_repo_stats, task, scratch, bucket >>

\* the first request of the listing fails: `?` returns the error
SendFirstFail ==
    /\ pc = "send"
    /\ pc' = "failed"
    /\ UNCHANGED << apiVars, per_repo_owner, pages, exclude_repos, page, repos, total, total_owner,
                    per_repo_stats, task, scratch, bucket >>

\* ListPage that dispatches what the first page holds
ListPage_FirstPageOnly ==
    /\ pc = "list"
    /\ repos' = repos \o KeptOf(pages[page])
    /\ page' = page
    /\ pc' = "setup"
    /\ UNCHANGED << apiVars, per_repo_owner, pages, exclude_repos, total,
                    total_owner, per_repo_stats, task, scratch, bucket >>

\* one turn of the loop: keep the non-forks of the page, then get the next page
ListPage ==
    /\ pc = "list"
    /\ repos' = repos \o KeptOf(pages[page])
    /\ IF page < Len(pages)
       THEN page' = page + 1 /\ pc' = "list"
       ELSE page' = page /\ pc' = "setup"
    /\ UNCHANGED << apiVars, per_repo_owner, pages, exclude_repos, total, total_owner, per_repo_stats,
                    task, scratch, bucket >>

\* one turn of the loop in which get_page fails: `?` returns the error
ListPageFail ==
    /\ pc = "list"
    /\ page < Len(pages)
    /\ repos' = repos \o KeptOf(pages[page])
    /\ pc' = "failed"
    /\ UNCHANGED << apiVars, per_repo_owner, pages, exclude_repos, page, total, total_owner,
                    per_repo_stats, task, scratch, bucket >>

(***************************************************************************)
(* Scratch root, accumulators and dispatch order (main.rs 111-154).        *)
(***************************************************************************)
NewTask == [pc |-> "queued", i |-> 1, slot |-> 0]

Setup ==
    /\ pc = "setup"
    /\ scratch' = {}
    /\ total' = <<>>
    /\ per_repo_stats' = <<>>
    /\ repos' = sort_unstable_by(repos, SizeOf(repos))
    /\ task' = [t \in DOMAIN repos |-> NewTask]
    /\ pc' = "fanout"
    /\ UNCHANGED << apiVars, per_repo_owner, pages, exclude_repos, page, total_owner, bucket >>

(***************************************************************************)
(* The closure rayon runs for each repository (main.rs 160-240).           *)
(***************************************************************************)
Tasks == DOMAIN task

\* how a task that panicked ended: before its tree was there (url, clone,
\* checkout), or at the removal of its directory
Panicked == {"panicked", "remove_failed"}

Running(t) == task[t].pc \notin {"queued", "done"} \cup Panicked

\* `languages` of task t after get_statistics: what tokei reports for the tree
Languages(t) == Tree(repos[t].name)

\* the entry the loop of task t is at
Entry(t) == from_lang(Languages(t)[task[t].i].name, Languages(t)[task[t].i])

\* where the closure goes when the loop is at position i
AfterEntry(t, i) == IF i <= Len(Languages(t)) THEN "merge" ELSE "collect"

\* a pool thread takes the task
Start(t) ==
    /\ pc = "fanout"
    /\ task[t].pc = "queued"
    /\ Cardinality({u \in Tasks : Running(u)}) < PoolSize
    /\ task' = [task EXCEPT ![t].pc = "clone"]
    /\ UNCHANGED << apiVars, per_repo_owner, pc, pages, exclude_repos, page, repos, total, total_owner,
                    per_repo_stats, scratch, bucket >>

\* clone, checkout and analysis succeed (main.rs 161-208)
Clone(t) ==
    /\ pc = "fanout"
    /\ task[t].pc = "clone"
    /\ scratch' = scratch \cup {repos[t].name}
    /\ task' = [task EXCEPT ![t].pc = AfterEntry(t, 1)]
    /\ UNCHANGED << apiVars, per_repo_owner, pc, pages, exclude_repos, page, repos, total, total_owner,
                    per_repo_stats, bucket >>

\* an unwrap of the url preparation, of the clone or of the checkout panics
\* (main.rs 170-187); gix removes the directory of a clone it drops unfinished
CloneFail(t) ==
    /\ pc = "fanout"
    /\ task[t].pc = "clone"
    /\ task' = [task EXCEPT ![t].pc = "panicked"]
    /\ UNCHANGED << apiVars, per_repo_owner, pc, pages, exclude_repos, page, repos, total, total_owner,
                    per_repo_stats, scratch, bucket >>

\* CanLock with the guard released between the find and the push
CanLock_NoMutex(t) == TRUE

\* Mutex::lock returns only while no other task holds the guard
CanLock(t) == total_owner = 0

\* Unlocked with the guard bound outside the loop and so never dropped
Unlocked_GuardKept(t) == t

\* the owner of the mutex once the guard of task t is dropped at the end of
\* the iteration (main.rs 217)
Unlocked(t) == 0

\* total.lock() and the find of the `if let` (main.rs 211-212)
LockAndFind(t) ==
    /\ pc = "fanout"
    /\ task[t].pc = "merge"
    /\ CanLock(t)
    /\ total_owner' = t
    /\ task' = [task EXCEPT ![t].pc = "locked",
                            ![t].slot = FindLang(total, Entry(t).name)]
    /\ UNCHANGED << apiVars, per_repo_owner, pc, pages, exclude_repos, page, repos, total,
                    per_repo_stats, scratch, bucket >>

\* the branch taken, and the guard dropped at the end of the iteration
\* (main.rs 213-217)
AddOrPushEntry(t) ==
    /\ pc = "fanout"
    /\ task[t].pc = "locked"
    /\ total' = AddOrPush(total, task[t].slot, Entry(t))
    /\ total_owner' = Unlocked(t)
    /\ task' = [task EXCEPT ![t].pc = AfterEntry(t, task[t].i + 1),
                            ![t].i = task[t].i + 1,
                            ![t].slot = 0]
    /\ UNCHANGED << apiVars, per_repo_owner, pc, pages, exclude_repos, page, repos, per_repo_stats,
                    scratch, bucket >>

\* Eligible without the test of repo.private
Eligible_IgnoresPrivate(repo) == repo.name \notin exclude_repos

\* the condition of main.rs 219
Eligible(repo) == repo.name \notin exclude_repos /\ ~repo.private

\* PerRepo built from the accumulator instead of the task's own statistics
PerRepo_FromTotal(repo, languages) ==
    [name |-> repo.name, languages |-> total]

\* struct PerRepo built at main.rs 221-229 (href and description are copied
\* from the descriptor like the name)
PerRepo(repo, languages) ==
    [name |-> repo.name,
     languages |-> [k \in DOMAIN languages |->
                        from_lang(languages[k].name, languages[k])]]

\* the test of main.rs 219: per_repo_stats.lock() for an eligible repository,
\* the "Excluding" branch for the others
Collect(t) ==
    /\ pc = "fanout"
    /\ task[t].pc = "collect"
    /\ IF Eligible(repos[t])
       THEN /\ per_repo_owner = 0
            /\ per_repo_owner' = t
            /\ task' = [task EXCEPT ![t].pc = "pushing"]
       ELSE /\ per_repo_owner' = per_repo_owner
            /\ task' = [task EXCEPT ![t].pc = "cleanup"]
    /\ UNCHANGED << apiVars, pc, pages, exclude_repos, page, repos, total,
                    total_owner, per_repo_stats, scratch, bucket >>

\* the push of main.rs 221-229; the guard is dropped at the end of the statement
PushPerRepo(t) ==
    /\ pc = "fanout"
    /\ task[t].pc = "pushing"
    /\ per_repo_stats' = Append(per_repo_stats, PerRepo(repos[t], Languages(t)))
    /\ per_repo_owner' = 0
    /\ task' = [task EXCEPT ![t].pc = "cleanup"]
    /\ UNCHANGED << apiVars, pc, pages, exclude_repos, page, repos, total,
                    total_owner, scratch, bucket >>

\* fs::remove_dir_all of the task's directory (main.rs 234)
Cleanup(t) ==
    /\ pc = "fanout"
    /\ task[t].pc = "cleanup"
    /\ scratch' = scratch \ {repos[t].name}
    /\ task' = [task EXCEPT ![t].pc = "done"]
    /\ UNCHANGED << apiVars, per_repo_owner, pc, pages, exclude_repos, page,
                    repos, total, total_owner, per_repo_stats, bucket >>

\* fs::remove_dir_all fails and its unwrap panics (main.rs 234): nothing else
\* removes the directory
CleanupFail(t) ==
    /\ pc = "fanout"
    /\ task[t].pc = "cleanup"
    /\ task' = [task EXCEPT ![t].pc = "remove_failed"]
    /\ UNCHANGED << apiVars, per_repo_owner, pc, pages, exclude_repos, page,
                    repos, total, total_owner, per_repo_stats, scratch, bucket >>

\* Join that returns as soon as every task has been started
Join_NoBarrier ==
    /\ pc = "fanout"
    /\ \A t \in Tasks : task[t].pc # "queued"
    /\ \A t \in Tasks : task[t].pc \notin Panicked
    /\ pc' = "combine"
    /\ UNCHANGED << apiVars, per_repo_owner, pages, exclude_repos, page, repos,
                    total, total_owner, per_repo_stats, task, scratch, bucket >>

\* Join that takes the tasks that panicked for finished ones
Join_IgnoresPanic ==
    /\ pc = "fanout"
    /\ \A t \in Tasks : task[t].pc \in {"done"} \cup Panicked
    /\ pc' = "combine"
    /\ UNCHANGED << apiVars, per_repo_owner, pages, exclude_repos, page, repos,
                    total, total_owner, per_repo_stats, task, scratch, bucket >>

\* for_each returns: every task has run to its end
Join ==
    /\ pc = "fanout"
    /\ \A t \in Tasks : task[t].pc = "done"
    /\ pc' = "combine"
    /\ UNCHANGED << apiVars, per_repo_owner, pages, exclude_repos, page, repos, total, total_owner,
                    per_repo_stats, task, scratch, bucket >>

\* for_each resumes the panic of a task once no task is running; a task not
\* yet started may have been dropped with the rest of the iterator
JoinPanic ==
    /\ pc = "fanout"
    /\ \A t \in Tasks : ~Running(t)
    /\ \E t \in Tasks : task[t].pc \in Panicked
    /\ pc' = "panicked"
    /\ UNCHANGED << apiVars, per_repo_owner, pages, exclude_repos, page, repos, total, total_owner,
                    per_repo_stats, task, scratch, bucket >>

(***************************************************************************)
(* Post-processing and persistence (main.rs 250-291).                      *)
(***************************************************************************)
\* total.iter_mut().find(|l| l.name == ty).unwrap().code += amount
AddToCode(langs, ty, amount) ==
    LET k == FindLang(langs, ty) IN
    [langs EXCEPT ![k].code = langs[k].code + amount]

\* combine_ts_tsx(&mut total)
CombineTotal ==
    /\ pc = "combine"
    /\ total' = combine_ts_tsx(total)
    /\ pc' = "adjust_rust"
    /\ UNCHANGED << apiVars, per_repo_owner, pages, exclude_repos, page, repos, total_owner,
                    per_repo_stats, task, scratch, bucket >>

\* the adjustment of Rust; the unwrap panics when total has no Rust entry
AdjustRust ==
    /\ pc = "adjust_rust"
    /\ IF FindLang(total, "Rust") # 0
       THEN /\ total' = AddToCode(total, "Rust", RustAdjustment)
            /\ pc' = "adjust_ts"
       ELSE /\ total' = total
            /\ pc' = "panicked"
    /\ UNCHANGED << apiVars, per_repo_owner, pages, exclude_repos, page, repos, total_owner,
                    per_repo_stats, task, scratch, bucket >>

\* the adjustment of TypeScript; the unwrap panics when total has no such entry
AdjustTypeScript ==
    /\ pc = "adjust_ts"
    /\ IF FindLang(total, "TypeScript") # 0
       THEN /\ total' = AddToCode(total, "TypeScript", TypeScriptAdjustment)
            /\ pc' = "sort_repos"
       ELSE /\ total' = total
            /\ pc' = "panicked"
    /\ UNCHANGED << apiVars, per_repo_owner, pages, exclude_repos, page, repos, total_owner,
                    per_repo_stats, task, scratch, bucket >>

\* per_repo_stats.sort_unstable_by(total_code descending)
SortRepos ==
    /\ pc = "sort_repos"
    /\ per_repo_stats' = sort_unstable_by(per_repo_stats, TotalCodeOf(per_repo_stats))
    /\ pc' = "norm_repos"
    /\ UNCHANGED << apiVars, per_repo_owner, pages, exclude_repos, page, repos, total, total_owner,
                    task, scratch, bucket >>

\* NormalizeRepo with the manual adjustment of Rust applied to the repository
NormalizeRepo_Adjusted(repo) ==
    LET combined == combine_ts_tsx(repo.languages)
        adjusted == IF FindLang(combined, "Rust") # 0
                    THEN AddToCode(combined, "Rust", RustAdjustment)
                    ELSE combined
    IN  [repo EXCEPT !.languages = sort_unstable_by(adjusted, CodeOf(adjusted))]

\* the body of the loop over per_repo_stats: combine, then sort by code
NormalizeRepo(repo) ==
    LET combined == combine_ts_tsx(repo.languages) IN
    [repo EXCEPT !.languages = sort_unstable_by(combined, CodeOf(combined))]

\* for repo in &mut per_repo_stats { ... }
NormRepos ==
    /\ pc = "norm_repos"
    /\ per_repo_stats' = [k \in DOMAIN per_repo_stats |-> NormalizeRepo(per_repo_stats[k])]
    /\ pc' = "sort_total"
    /\ UNCHANGED << apiVars, per_repo_owner, pages, exclude_repos, page, repos, total, total_owner,
                    task, scratch, bucket >>

\* total.sort_unstable_by(code descending)
SortTotal ==
    /\ pc = "sort_total"
    /\ total' = sort_unstable_by(total, CodeOf(total))
    /\ pc' = "save"
    /\ UNCHANGED << apiVars, per_repo_owner, pages, exclude_repos, page, repos, total_owner,
                    per_repo_stats, task, scratch, bucket >>

\* common::save_stats, first put_object: total-stats.json is overwritten
PutTotal ==
    /\ pc = "save"
    /\ bucket' = [bucket EXCEPT !.total = Object("this", total)]
    /\ pc' = "save_per_repo"
    /\ UNCHANGED << apiVars, per_repo_owner, pages, exclude_repos, page, repos,
                    total, total_owner, per_repo_stats, task, scratch >>

\* the first put_object fails: `?` returns the error, nothing is written
PutTotalFail ==
    /\ pc = "save"
    /\ pc' = "save_failed"
    /\ UNCHANGED << apiVars, per_repo_owner, pages, exclude_repos, page, repos,
                    total, total_owner, per_repo_stats, task, scratch, bucket >>

\* common::save_stats, second put_object: per-repo-stats.json is overwritten
PutPerRepo ==
    /\ pc = "save_per_repo"
    /\ bucket' = [bucket EXCEPT !.per_repo = Object("this", per_repo_stats)]
    /\ pc' = "done"
    /\ UNCHANGED << apiVars, per_repo_owner, pages, exclude_repos, page, repos,
                    total, total_owner, per_repo_stats, task, scratch >>

\* the second put_object fails: `?` returns the error after the first write
PutPerRepoFail ==
    /\ pc = "save_per_repo"
    /\ pc' = "save_failed"
    /\ UNCHANGED << apiVars, per_repo_owner, pages, exclude_repos, page, repos,
                    total, total_owner, per_repo_stats, task, scratch, bucket >>

Next ==
    \/ SendFirst
    \/ SendFirstFail
    \/ ListPage
    \/ ListPageFail
    \/ Setup
    \/ \E t \in Tasks : Start(t)
    \/ \E t \in Tasks : Clone(t)
    \/ \E t \in Tasks : CloneFail(t)
    \/ \E t \in Tasks : LockAndFind(t)
    \/ \E t \in Tasks : AddOrPushEntry(t)
    \/ \E t \in Tasks : Collect(t)
    \/ \E t \in Tasks : PushPerRepo(t)
    \/ \E t \in Tasks : Cleanup(t)
    \/ \E t \in Tasks : CleanupFail(t)
    \/ Join
    \/ JoinPanic
    \/ CombineTotal
    \/ AdjustRust
    \/ AdjustTypeScript
    \/ SortRepos
    \/ NormRepos
    \/ SortTotal
    \/ PutTotal
    \/ PutTotalFail
    \/ PutPerRepo
    \/ PutPerRepoFail

Spec == Init /\ [][Next]_vars

(***************************************************************************)
(* Vocabulary of the properties.                                           *)
(***************************************************************************)
\* the listing as one sequence
RECURSIVE Flatten(_)
Flatten(pp) == IF pp = <<>> THEN <<>> ELSE Head(pp) \o Flatten(Tail(pp))

Listed == Range(Flatten(pages))

\* the value of counter f ("code", "blanks" or "comments") that a language
\* list reports for language ty, 0 when it has no entry of it
RECURSIVE CountIn(_, _, _)
CountIn(langs, ty, f) ==
    IF langs = <<>> THEN 0
    ELSE (IF Head(langs).name = ty THEN Head(langs)[f] ELSE 0)
         + CountIn(Tail(langs), ty, f)

\* the sum of counter f of language ty over the trees of a set of repositories
RECURSIVE CountOver(_, _, _)
CountOver(rs, ty, f) ==
    IF rs = {} THEN 0
    ELSE LET r == CHOOSE x \in rs : TRUE IN
         CountIn(Tree(r.name), ty, f) + CountOver(rs \ {r}, ty, f)

Counters == {"code", "blanks", "comments"}

HasLang(langs, ty) == \E k \in DOMAIN langs : langs[k].name = ty

\* the repositories whose tree reports language ty
Reporting(rs, ty) == {r \in rs : HasLang(Tree(r.name), ty)}

\* at most one entry per language
UniqueKeys(langs) ==
    \A a, b \in DOMAIN langs : langs[a].name = langs[b].name => a = b

\* the same language keys with the same counters, whatever the order
SameStats(x, y) == Len(x) = Len(y) /\ Range(x) = Range(y)

\* the task has left the accumulator loop behind
Merged(t) == task[t].pc \in {"collect", "pushing", "cleanup", "done", "remove_failed"}

\* the task has not yet taken the lock of total
Untouched(t) ==
    \/ task[t].pc \in {"queued", "clone", "panicked"}
    \/ task[t].pc = "merge" /\ task[t].i = 1

(***************************************************************************)
(* C1: under every interleaving of the tasks' lock acquisitions the global *)
(* total has at most one entry per language.                               *)
(***************************************************************************)
C1_UniqueLanguages == UniqueKeys(total)

\* two tasks whose trees share a language have both merged it
C1_Witness ==
    \E t, u \in Tasks :
        /\ t # u /\ Merged(t) /\ Merged(u)
        /\ \E ty \in LanguageType :
              HasLang(Languages(t), ty) /\ HasLang(Languages(u), ty) /\ HasLang(total, ty)

(***************************************************************************)
(* C2: when every task has finished and normalization has not started, the *)
(* global total has, for each language some cloned repository reported,    *)
(* one entry whose counters are the sums over all cloned repositories      *)
(* (private and excluded ones included), and no entry for other languages. *)
(***************************************************************************)
C2_TotalIsSum ==
    pc = "combine" =>
        /\ \A ty \in LanguageType :
              Reporting(Range(repos), ty) # {} =>
                  \E k \in DOMAIN total :
                      /\ total[k].name = ty
                      /\ \A f \in Counters : total[k][f] = CountOver(Range(repos), ty, f)
        /\ \A k \in DOMAIN total : Reporting(Range(repos), total[k].name) # {}

\* a private or excluded repository and a public one reported the same language
C2_Witness ==
    /\ pc = "combine"
    /\ \E a, b \in Range(repos) :
          /\ a.private \/ a.name \in exclude_repos
          /\ Eligible(b)
          /\ \E ty \in LanguageType : {a, b} \subseteq Reporting(Range(repos), ty)

(***************************************************************************)
(* C3: merging A then B into an empty accumulator gives the same language  *)
(* keys with the same counters as merging B then A, and so does every      *)
(* interleaving of the per-language merge steps of A and B.                *)
(***************************************************************************)
C3_MergeCommutes ==
    pc \in {"setup", "fanout", "combine"} =>
        \A t, u \in DOMAIN repos :
            t # u =>
                LET A == Tree(repos[t].name)
                    B == Tree(repos[u].name)
                IN  /\ pc = "setup" =>
                          SameStats(MergeAll(MergeAll(<<>>, A), B),
                                    MergeAll(MergeAll(<<>>, B), A))
                    /\ (/\ pc \in {"fanout", "combine"}
                        /\ Merged(t) /\ Merged(u)
                        /\ \A v \in Tasks \ {t, u} : Untouched(v))
                          => SameStats(total, MergeAll(MergeAll(<<>>, A), B))

\* two tasks whose trees share a language with different counts have both
\* merged, and nothing else has been merged
C3_Witness ==
    \E t, u \in Tasks :
        /\ pc = "fanout"
        /\ t # u /\ Merged(t) /\ Merged(u)
        /\ \A v \in Tasks \ {t, u} : Untouched(v)
        /\ \E ty \in LanguageType :
              /\ HasLang(Languages(t), ty) /\ HasLang(Languages(u), ty)
              /\ CountIn(Languages(t), ty, "code") # CountIn(Languages(u), ty, "code")

(***************************************************************************)
(* C4: the two published documents, the order of their lists included, are *)
(* the same for every completion order of the tasks and every interleaving *)
(* of their merges, ties in code counts included.  A run whose tasks run   *)
(* one after the other in dispatch order is one of these runs, so the      *)
(* claim says that every run publishes what that run publishes.            *)
(***************************************************************************)
\* total after the tasks ran one at a time in the order of repos
RECURSIVE OneByOneTotal(_, _)
OneByOneTotal(acc, rs) ==
    IF rs = <<>> THEN acc
    ELSE OneByOneTotal(MergeAll(acc, Tree(Head(rs).name)), Tail(rs))

\* per_repo_stats after the tasks ran one at a time in the order of repos
RECURSIVE OneByOnePerRepo(_)
OneByOnePerRepo(rs) ==
    IF rs = <<>> THEN <<>>
    ELSE (IF Eligible(Head(rs)) THEN << PerRepo(Head(rs), Tree(Head(rs).name)) >> ELSE <<>>)
         \o OneByOnePerRepo(Tail(rs))

\* the documents that run publishes
OneByOneDocuments ==
    LET merged == combine_ts_tsx(OneByOneTotal(<<>>, repos))
        adjusted == AddToCode(AddToCode(merged, "Rust", RustAdjustment),
                              "TypeScript", TypeScriptAdjustment)
        reports == OneByOnePerRepo(repos)
        sortedRepos == sort_unstable_by(reports, TotalCodeOf(reports))
    IN  [total |-> Object("this", sort_unstable_by(adjusted, CodeOf(adjusted))),
         per_repo |-> Object("this", [k \in DOMAIN sortedRepos |->
                                         NormalizeRepo(sortedRepos[k])])]

C4_Deterministic == pc = "done" => bucket = OneByOneDocuments

(***************************************************************************)
(* C5: in every state of a run, and in the published per-repo document,    *)
(* the per-repo list has no entry for a repository that is a fork, or is   *)
(* private, or whose name is in the exclusion list.                        *)
(***************************************************************************)
Ineligible(r) == r.fork \/ r.private \/ r.name \in exclude_repos

NoReportOf(reports, r) == \A k \in DOMAIN reports : reports[k].name # r.name

C5_OnlyEligibleReported ==
    \A r \in Listed :
        Ineligible(r) =>
            /\ NoReportOf(per_repo_stats, r)
            /\ NoReportOf(bucket.per_repo.body, r)

\* a run that listed an ineligible repository has published a per-repo
\* document that is not empty
C5_Witness ==
    /\ pc = "done"
    /\ \E r \in Listed : Ineligible(r)
    /\ bucket.per_repo.run = "this" /\ bucket.per_repo.body # <<>>

(***************************************************************************)
(* C6: a repository that is a fork, or private, or excluded by name has    *)
(* its language counts in the global total once every task has finished:   *)
(* each of its languages has a global entry that includes its counts.      *)
(***************************************************************************)
\* the global entry of each language of r holds r's counts on top of the
\* counts of the other cloned repositories
IncludedInTotal(r) ==
    \A k \in DOMAIN Tree(r.name) :
        LET e == Tree(r.name)[k] IN
        /\ HasLang(total, e.name)
        /\ \A f \in Counters :
              CountIn(total, e.name, f)
                  = e[f] + CountOver(Range(repos) \ {r}, e.name, f)

C6_IneligibleCounted ==
    pc = "combine" => \A r \in Listed : Ineligible(r) => IncludedInTotal(r)

(***************************************************************************)
(* C6 as amended: a repository that is private or excluded by name and is  *)
(* not a fork has its language counts in the global total once every task  *)
(* has finished; a fork is dropped by the lister, is never cloned and adds *)
(* nothing to the global total.                                            *)
(***************************************************************************)
C6_NonForkIneligibleCounted ==
    pc = "combine" =>
        /\ \A r \in Listed : (Ineligible(r) /\ ~r.fork) => IncludedInTotal(r)
        /\ \A r \in Listed : r.fork => r \notin Range(repos)
        /\ \A ty \in LanguageType, f \in Counters :
              CountIn(total, ty, f) = CountOver({r \in Listed : ~r.fork}, ty, f)

\* the tasks of a listing with a fork and a private or excluded repository
\* have all finished
C6_Witness ==
    /\ pc = "combine"
    /\ \E r \in Listed : r.fork /\ Tree(r.name) # <<>>
    /\ \E r \in Listed : ~r.fork /\ Ineligible(r) /\ Tree(r.name) # <<>>

(***************************************************************************)
(* C7: after all tasks finished, the per-repo list has exactly one report  *)
(* for each listed repository that is public, not a fork and not excluded, *)
(* and that report's languages are that repository's own counts.           *)
(***************************************************************************)
C7_OwnReportPerEligible ==
    pc = "combine" =>
        \A r \in Listed :
            ~Ineligible(r) =>
                /\ Cardinality({k \in DOMAIN per_repo_stats :
                                    per_repo_stats[k].name = r.name}) = 1
                /\ \A k \in DOMAIN per_repo_stats :
                      per_repo_stats[k].name = r.name =>
                          per_repo_stats[k].languages = Tree(r.name)

\* two eligible repositories that share a language have both been reported
C7_Witness ==
    /\ pc = "combine"
    /\ Len(per_repo_stats) = 2
    /\ \E ty \in LanguageType :
          \A k \in DOMAIN per_repo_stats : HasLang(per_repo_stats[k].languages, ty)

(***************************************************************************)
(* C8: normalizing a language list that has a TypeScript and a Tsx entry   *)
(* gives a list without Tsx whose TypeScript counters are the sums of the  *)
(* two, with every other language unchanged; for the global total and for  *)
(* every per-repo report.                                                  *)
(***************************************************************************)
Others == LanguageType \ {"TypeScript", "Tsx"}

\* `after` keeps the languages of `before` other than ty, with their counters
OthersKept(before, after) ==
    /\ UniqueKeys(after)
    /\ \A ty \in Others :
          /\ HasLang(after, ty) <=> HasLang(before, ty)
          /\ \A f \in Counters : CountIn(after, ty, f) = CountIn(before, ty, f)

\* `after` is `before` with Tsx folded into TypeScript
Folded(before, after) ==
    /\ ~HasLang(after, "Tsx")
    /\ HasLang(after, "TypeScript")
    /\ \A f \in Counters :
          CountIn(after, "TypeScript", f)
              = CountIn(before, "TypeScript", f) + CountIn(before, "Tsx", f)
    /\ OthersKept(before, after)

HasBoth(langs) == HasLang(langs, "TypeScript") /\ HasLang(langs, "Tsx")

TsxOnly(langs) == HasLang(langs, "Tsx") /\ ~HasLang(langs, "TypeScript")

C8_Step ==
    /\ (pc = "combine" /\ HasBoth(total)) => Folded(total, total')
    /\ pc = "norm_repos" =>
          \A k \in DOMAIN per_repo_stats :
              HasBoth(per_repo_stats[k].languages) =>
                  /\ per_repo_stats'[k].name = per_repo_stats[k].name
                  /\ Folded(per_repo_stats[k].languages, per_repo_stats'[k].languages)

C8_BothFolded == [][C8_Step]_vars

\* the total and a report that both had TypeScript and Tsx have been normalized
C8_Witness ==
    /\ pc = "sort_total"
    /\ ~HasLang(total, "Tsx")
    /\ \E r \in Range(repos) : HasLang(Tree(r.name), "Tsx")
    /\ \E k \in DOMAIN per_repo_stats :
          /\ ~HasLang(per_repo_stats[k].languages, "Tsx")
          /\ \E r \in Range(repos) :
                r.name = per_repo_stats[k].name /\ HasBoth(Tree(r.name))

(***************************************************************************)
(* C9: normalizing a language list that has a Tsx entry and no TypeScript  *)
(* entry gives a list with a new TypeScript entry equal to the Tsx value   *)
(* and without the Tsx entry.                                              *)
(***************************************************************************)
C9_Step ==
    /\ (pc = "combine" /\ TsxOnly(total)) => Folded(total, total')
    /\ pc = "norm_repos" =>
          \A k \in DOMAIN per_repo_stats :
              TsxOnly(per_repo_stats[k].languages) =>
                  Folded(per_repo_stats[k].languages, per_repo_stats'[k].languages)

C9_TsxOnlyBecomesTypeScript == [][C9_Step]_vars

(***************************************************************************)
(* C10: the adjustments (+15673 Rust code, +4333 TypeScript code) are      *)
(* applied exactly once to the global total of a run, after the            *)
(* TypeScript/Tsx merge, and never to the counts of a per-repo report,     *)
(* however many repositories were processed.                               *)
(***************************************************************************)
Cloned == Range(repos)

\* the code count of the merged TypeScript entry before any adjustment
MergedTypeScript ==
    CountOver(Cloned, "TypeScript", "code") + CountOver(Cloned, "Tsx", "code")

\* the counts of a report are those of its repository's tree, Tsx folded or not
OwnCounts(report) ==
    /\ total_code(report.languages) = total_code(Tree(report.name))
    /\ \A ty \in Others :
          CountIn(report.languages, ty, "code") = CountIn(Tree(report.name), ty, "code")
    /\ CountIn(report.languages, "TypeScript", "code")
          + CountIn(report.languages, "Tsx", "code")
       = CountIn(Tree(report.name), "TypeScript", "code")
          + CountIn(Tree(report.name), "Tsx", "code")

AfterAdjustment ==
    pc \in {"sort_repos", "norm_repos", "sort_total", "save", "save_per_repo",
            "save_failed", "done"}

C10_AdjustedOnce ==
    /\ pc = "adjust_rust" =>
          /\ CountIn(total, "Rust", "code") = CountOver(Cloned, "Rust", "code")
          /\ HasLang(total, "TypeScript") =>
                CountIn(total, "TypeScript", "code") = MergedTypeScript
    /\ pc = "adjust_ts" =>
          /\ CountIn(total, "Rust", "code")
                = CountOver(Cloned, "Rust", "code") + RustAdjustment
          /\ HasLang(total, "TypeScript") =>
                CountIn(total, "TypeScript", "code") = MergedTypeScript
    /\ AfterAdjustment =>
          /\ CountIn(total, "Rust", "code")
                = CountOver(Cloned, "Rust", "code") + RustAdjustment
          /\ CountIn(total, "TypeScript", "code")
                = MergedTypeScript + TypeScriptAdjustment
          /\ \A ty \in LanguageType \ {"Rust", "TypeScript", "Tsx"} :
                CountIn(total, ty, "code") = CountOver(Cloned, ty, "code")
          /\ ~HasLang(total, "Tsx")
    /\ pc = "done" => bucket.total.body = total
    /\ \A k \in DOMAIN per_repo_stats :
          \/ per_repo_stats[k].languages = Tree(per_repo_stats[k].name)
          \/ OwnCounts(per_repo_stats[k])
    /\ \A k \in DOMAIN bucket.per_repo.body : OwnCounts(bucket.per_repo.body[k])

\* a run over two repositories has published a report with Rust code in it
C10_Witness ==
    /\ pc = "done"
    /\ Len(repos) >= 2
    /\ \E ty \in {"Rust", "TypeScript"} :
          Cardinality(Reporting(Cloned, ty)) >= 2
    /\ \E k \in DOMAIN bucket.per_repo.body :
          HasLang(bucket.per_repo.body[k].languages, "Rust")

(***************************************************************************)
(* C11: in the published documents the global language list is             *)
(* non-increasing by code count (adjustments included), the language list  *)
(* of every repository report is non-increasing by code count, and the     *)
(* reports are non-increasing by their total code, the total being the sum *)
(* over the published (TypeScript/Tsx merged) language list.               *)
(***************************************************************************)
CodeSum(langs) == CountIn(langs, "Rust", "code") + CountIn(langs, "TypeScript", "code")
    + CountIn(langs, "Tsx", "code") + CountIn(langs, "Python", "code")

Descending(langs) ==
    \A i, j \in DOMAIN langs : i < j => langs[i].code >= langs[j].code

C11_PublishedSorted ==
    pc = "done" =>
       /\ Descending(bucket.total.body)
       /\ \A k \in DOMAIN bucket.per_repo.body :
             Descending(bucket.per_repo.body[k].languages)
       /\ \A i, j \in DOMAIN bucket.per_repo.body :
             i < j => CodeSum(bucket.per_repo.body[i].languages)
                         >= CodeSum(bucket.per_repo.body[j].languages)

\* published: a global list of two languages or more, two reports of different
\* totals, and a report whose list has two counts in strict order
C11_Witness ==
    /\ pc = "done"
    /\ Len(bucket.total.body) >= 2
    /\ \E i, j \in DOMAIN bucket.per_repo.body :
          /\ i < j
          /\ CodeSum(bucket.per_repo.body[i].languages)
                > CodeSum(bucket.per_repo.body[j].languages)
    /\ \E k \in DOMAIN bucket.per_repo.body :
          LET l == bucket.per_repo.body[k].languages IN
          Len(l) >= 2 /\ l[1].code > l[2].code

(***************************************************************************)
(* C12: the scratch path of a repository is removed on every exit path of  *)
(* its worker: when the worker has ended, after a successful task, after a *)
(* clone or checkout failure or after a failure in a later step, the path  *)
(* /tmp/repo/<name> no longer exists.                                      *)
(***************************************************************************)
Ended(t) == task[t].pc \in {"done"} \cup Panicked

C12_ScratchRemoved ==
    \A t \in Tasks : Ended(t) => repos[t].name \notin scratch

(***************************************************************************)
(* C13: a clone failure for one repository does not abort the run: when    *)
(* the clone of one repository has failed and the other repositories have  *)
(* been processed, the run goes on to report the others and to publish; it *)
(* is not terminated by that failure.                                      *)
(***************************************************************************)
CloneFailed(t) == task[t].pc = "panicked"

\* the repositories whose tasks succeeded carry what the adjustments need
DoneReport(ty) ==
    \E t \in Tasks : task[t].pc = "done" /\ HasLang(Tree(repos[t].name), ty)

C13_CloneFailureIsolated ==
    (/\ \E t \in Tasks : CloneFailed(t)
     /\ \A t \in Tasks : task[t].pc = "done" \/ CloneFailed(t)
     /\ DoneReport("Rust")
     /\ DoneReport("TypeScript"))
    => pc # "panicked"

(***************************************************************************)
(* C14: once a worker of the fan-out has failed fatally (url preparation,  *)
(* clone, checkout or removal of its scratch directory), the run can only  *)
(* terminate with that failure: no post-processing step and no write to    *)
(* the store happens in that run, and both stored artifacts remain those   *)
(* of the previous run, whatever the other workers have merged.            *)
(***************************************************************************)
Fatal == \E t \in Tasks : task[t].pc \in Panicked

PreviousPair == [total |-> Previous, per_repo |-> Previous]

C14_FatalNeverPublishes ==
    Fatal => pc \in {"fanout", "panicked"} /\ bucket = PreviousPair

\* the run has ended with the failure of one task after another task had
\* merged its counts into the total
C14_Witness ==
    /\ pc = "panicked"
    /\ Fatal
    /\ \E t \in Tasks : task[t].pc = "done"
    /\ total # <<>>
    /\ bucket = PreviousPair

(***************************************************************************)
(* C15: publication is all-or-nothing: when either of the two writes of    *)
(* save_stats fails, save_stats returns an error and the stored pair is    *)
(* still the previous one; the pair is replaced only when both writes      *)
(* succeed.                                                                *)
(***************************************************************************)
C15_AllOrNothing == pc = "save_failed" => bucket = PreviousPair

(***************************************************************************)
(* C16: post-processing never begins while a worker is running: from the   *)
(* first post-processing step on, every task of the fan-out has finished,  *)
(* no worker holds the lock of the total or of the per-repo list, and so   *)
(* no worker mutates either accumulator afterwards.                        *)
(***************************************************************************)
PostProcessing ==
    pc \in {"combine", "adjust_rust", "adjust_ts", "sort_repos", "norm_repos",
            "sort_total", "save", "save_per_repo", "save_failed", "done"}

C16_Barrier ==
    PostProcessing =>
       /\ \A t \in Tasks : task[t].pc = "done"
       /\ total_owner = 0
       /\ per_repo_owner = 0

\* the first post-processing step of a run of two tasks that both merged into
\* the total and pushed a report
C16_Witness ==
    /\ pc = "combine"
    /\ Len(task) >= 2
    /\ Len(total) >= 2
    /\ Len(per_repo_stats) >= 2

(***************************************************************************)
(* C17: at most one worker mutates the total at a time; a worker holds the *)
(* lock of the total only while it merges one language entry, not while it *)
(* clones, checks out, scans or deletes; no worker holds the lock of the   *)
(* total and the lock of the per-repo list together; and the locks never   *)
(* bring the fan-out to a deadlock.                                        *)
(***************************************************************************)
Merging == {t \in Tasks : task[t].pc = "locked"}

Pushing == {t \in Tasks : task[t].pc = "pushing"}

C17_LockDiscipline ==
    /\ Merging = IF total_owner = 0 THEN {} ELSE {total_owner}
    /\ Pushing = IF per_repo_owner = 0 THEN {} ELSE {per_repo_owner}
    /\ total_owner # 0 => total_owner # per_repo_owner
    \* the holder of a lock waits for nothing before it releases it
    /\ total_owner # 0 => ENABLED AddOrPushEntry(total_owner)
    /\ per_repo_owner # 0 => ENABLED PushPerRepo(per_repo_owner)

\* one worker holds the lock of the total while another waits for it
C17_Witness ==
    /\ pc = "fanout"
    /\ total_owner # 0
    /\ \E t \in Tasks : t # total_owner /\ task[t].pc = "merge"

(***************************************************************************)
(* C18: no repository is cloned and the scratch root is not wiped until    *)
(* the last page of the listing has been fetched; the tasks dispatched are *)
(* exactly the non-fork repositories of all the pages; and when the fetch  *)
(* of a page fails the run ends with the error, having cloned and          *)
(* published nothing.                                                      *)
(***************************************************************************)
Listing == pc \in {"send", "list", "setup", "failed"}

NonForks == {r \in Listed : ~r.fork}

C18_ListBeforeClone ==
    /\ Listing =>
          /\ scratch = StaleScratch
          /\ task = <<>>
          /\ total = <<>>
          /\ bucket = PreviousPair
    /\ pc = "failed" => ~ENABLED Next
    /\ ~Listing =>
          /\ page = Len(pages)
          /\ Range(repos) = NonForks
          /\ Len(repos) = Cardinality(NonForks)
          /\ DOMAIN task = DOMAIN repos
          /\ StaleScratch \cap scratch = {}

\* the fan-out of a listing of two pages, a fork on one of them and a
\* repository of the last page being cloned
C18_Witness ==
    /\ pc = "fanout"
    /\ Len(pages) >= 2
    /\ \E r \in Listed : r.fork
    /\ \E t \in Tasks :
          /\ task[t].pc # "queued"
          /\ repos[t] \in Range(pages[Len(pages)])

(***************************************************************************)
(* C19: a run reaches the persistence step only if, after the              *)
(* TypeScript/Tsx merge, the total has a Rust entry and a TypeScript       *)
(* entry, that is only if some cloned repository reports Rust and some     *)
(* cloned repository reports TypeScript; otherwise (no repository, none    *)
(* reporting Rust, none reporting TypeScript, Tsx alone included) the run  *)
(* aborts at the manual adjustment and nothing is published.               *)
(***************************************************************************)
Adjustable ==
    /\ Reporting(Cloned, "Rust") # {}
    /\ Reporting(Cloned, "TypeScript") # {}

C19_AdjustmentGate ==
    /\ AfterAdjustment => Adjustable
    /\ bucket # PreviousPair => Adjustable
    /\ (pc = "panicked" /\ ~Fatal) => (~Adjustable /\ bucket = PreviousPair)
    /\ (pc = "adjust_ts" /\ ~Adjustable) => ~HasLang(total, "TypeScript")
    /\ (pc = "adjust_rust" /\ Reporting(Cloned, "Rust") = {}) => ~HasLang(total, "Rust")

\* a run whose repositories report Rust and Tsx and no TypeScript has aborted
\* at the adjustment of TypeScript
C19_Witness ==
    /\ pc = "panicked"
    /\ ~Fatal
    /\ HasLang(total, "Rust")
    /\ HasLang(total, "Tsx")
    /\ bucket = PreviousPair

(***************************************************************************)
(* The read-side service (api/src/main.rs), serving requests while a run   *)
(* of the job saves its documents (common/src/lib.rs 18-103).              *)
(***************************************************************************)
\* the state of the job
jobVars == << pc, pages, exclude_repos, page, repos, total, total_owner,
              per_repo_stats, per_repo_owner, task, scratch, bucket >>

\* the routes /total and /per-repo, named as the cell and the object they read
Handlers == {"total", "per_repo"}

\* OnceCell::set with a cell that takes every value it is given
set_Overwrites(c, value) == <<value>>

\* OnceCell::set: the value is stored only into an empty cell; the handler
\* drops the result with .ok()
set(c, value) == IF c = EmptyCell THEN <<value>> ELSE c

\* a request as its handler holds it: where the handler is, what its fetch
\* returned and the body of its response
Request(handler, at, fetched, body) ==
    [handler |-> handler, pc |-> at, fetched |-> fetched, body |-> body]

\* a request enters handler h: the `if let Some(..) = CELL.get()` and, with a
\* value stored, the response built from its clone
Receive(h) ==
    /\ Len(request) < MaxRequests
    /\ request' = Append(request,
                         IF cell[h] # EmptyCell
                         THEN Request(h, "ok", <<>>, cell[h])
                         ELSE Request(h, "fetching", <<>>, <<>>))
    /\ UNCHANGED << cell, jobVars >>

\* common::get_total_stats / get_per_repo_stats returns the object as it is
\* stored when the get_object is served
Fetch(r) ==
    /\ request[r].pc = "fetching"
    /\ request' = [request EXCEPT ![r].pc = "fetched",
                                  ![r].fetched = << bucket[request[r].handler] >>]
    /\ UNCHANGED << cell, jobVars >>

\* the get_object fails: map_err and `?` return Err("Failed to get total stats")
FetchFail(r) ==
    /\ request[r].pc = "fetching"
    /\ request' = [request EXCEPT ![r].pc = "error"]
    /\ UNCHANGED << cell, jobVars >>

\* CELL.set(fetched).ok() and CELL.get().unwrap().clone() as the body
SetAndRespond(r) ==
    /\ request[r].pc = "fetched"
    /\ LET h == request[r].handler IN
       /\ cell' = [cell EXCEPT ![h] = set(cell[h], request[r].fetched[1])]
       /\ request' = [request EXCEPT ![r].pc = "ok", ![r].body = cell'[h]]
    /\ UNCHANGED jobVars

\* the state of a run over the listing <<r>> at its call of save_stats
Saving(r) ==
    LET merged == combine_ts_tsx(MergeAll(<<>>, Tree(r.name)))
        adjusted == AddToCode(AddToCode(merged, "Rust", RustAdjustment),
                              "TypeScript", TypeScriptAdjustment)
    IN  /\ pc = "save"
        /\ pages = Paginate(<<r>>)
        /\ exclude_repos = ExcludeRepos
        /\ page = 1
        /\ repos = <<r>>
        /\ total = sort_unstable_by(adjusted, CodeOf(adjusted))
        /\ total_owner = 0
        /\ per_repo_stats = IF Eligible(r)
                            THEN << NormalizeRepo(PerRepo(r, Tree(r.name))) >>
                            ELSE <<>>
        /\ per_repo_owner = 0
        /\ task = << [NewTask EXCEPT !.pc = "done", !.i = Len(Tree(r.name)) + 1] >>
        /\ scratch = {}
        /\ bucket = [total |-> Previous, per_repo |-> Previous]

\* the repositories whose run alone reaches save_stats
Savable ==
    {r \in Catalog : /\ ~r.fork
                     /\ HasLang(Tree(r.name), "Rust")
                     /\ HasLang(Tree(r.name), "TypeScript")}

ApiInit ==
    /\ \E r \in Savable : Saving(r)
    /\ ApiIdle

ApiNext ==
    \/ \E h \in Handlers : Receive(h)
    \/ \E r \in DOMAIN request : Fetch(r)
    \/ \E r \in DOMAIN request : FetchFail(r)
    \/ \E r \in DOMAIN request : SetAndRespond(r)
    \/ PutTotal
    \/ PutTotalFail
    \/ PutPerRepo
    \/ PutPerRepoFail

ApiSpec == ApiInit /\ [][ApiNext]_vars

(***************************************************************************)
(* C20: each read-side cache (total, per-repo) is write-once per process:  *)
(* under any interleaving of concurrent requests, once a fetch has         *)
(* succeeded and been stored, the cell never changes and every later       *)
(* response of that handler carries exactly the stored payload, also for a *)
(* request that fetched concurrently and lost the race to store, and also  *)
(* after the job has published newer documents; a request that arrives     *)
(* then does not read the store; a fetch that fails stores nothing and its *)
(* request gets an error.                                                  *)
(***************************************************************************)
\* the requests of handler h that are answered in the next state and were not
\* in this one
Answered(h) ==
    {r \in DOMAIN request' :
        /\ request'[r].handler = h
        /\ request'[r].pc = "ok"
        /\ (r \in DOMAIN request => request[r].pc # "ok")}

\* the requests that arrive in this step
Arrived == DOMAIN request' \ DOMAIN request

C20_Step ==
    \A h \in Handlers :
       /\ cell[h] # EmptyCell =>
             /\ cell'[h] = cell[h]
             /\ \A r \in Arrived : request'[r].handler = h => request'[r].pc = "ok"
       /\ \A r \in Answered(h) :
             /\ cell'[h] # EmptyCell
             /\ request'[r].body = cell'[h]
       /\ \A r \in DOMAIN request :
             (/\ request[r].handler = h
              /\ request[r].pc # "error"
              /\ request'[r].pc = "error") => cell' = cell
       /\ cell'[h] # cell[h] =>
             \E r \in DOMAIN request :
                /\ request[r].handler = h
                /\ request[r].pc = "fetched"
                /\ cell'[h] = request[r].fetched

C20_WriteOnce == [][C20_Step]_vars

\* a request that fetched the new document has lost the race and is answered
\* with the stored, older one, the store holding the new one
C20_Witness ==
    \E r \in DOMAIN request :
       LET h == request[r].handler IN
       /\ request[r].pc = "ok"
       /\ request[r].fetched # <<>>
       /\ request[r].fetched # cell[h]
       /\ request[r].body = cell[h]
       /\ bucket[h] # cell[h][1]
       /\ \E q \in DOMAIN request : q # r /\ request[q].pc = "error"

====
